---------------------------- MODULE Spec2Model ----------------------------
(***************************************************************************)
(* MD2 collision search (Rogier-Chauvaud T-table attack with a zero        *)
(* initial state).  The module models the two source files:                *)
(*                                                                         *)
(*   src/src/lib.rs   ByteRange, Candidates, prefill_row, compress,        *)
(*                    decompress and the tests test_k2 / test_k3           *)
(*   src/src/main.rs  create_initial_state, find_collisions, increase,     *)
(*                    check_collisions                                     *)
(*                                                                         *)
(* A byte is a number in 0..255; u8 arithmetic wraps (% 256).  A Rust      *)
(* slice or Vec x is a sequence: x[i] of the source is x[i + 1] here.  The *)
(* 19 x 49 table state[row][col] of main.rs is a sequence of 19 rows of 49 *)
(* bytes: state[row][col] of the source is st[row + 1][col + 1] here.      *)
(***************************************************************************)
EXTENDS Integers, Sequences, FiniteSets, TLC

(***************************************************************************)
(* The MD2 S-box (RFC 1319, PI_SUBST) and its inverse, imported by both    *)
(* files from the md2 crate: SBOX / SBOXI in lib.rs, S / S2 in main.rs.    *)
(***************************************************************************)
SBOX ==
  <<
     41,  46,  67, 201, 162, 216, 124,   1,  61,  54,  84, 161, 236, 240,   6,  19,
     98, 167,   5, 243, 192, 199, 115, 140, 152, 147,  43, 217, 188,  76, 130, 202,
     30, 155,  87,  60, 253, 212, 224,  22, 103,  66, 111,  24, 138,  23, 229,  18,
    190,  78, 196, 214, 218, 158, 222,  73, 160, 251, 245, 142, 187,  47, 238, 122,
    169, 104, 121, 145,  21, 178,   7,  63, 148, 194,  16, 137,  11,  34,  95,  33,
    128, 127,  93, 154,  90, 144,  50,  39,  53,  62, 204, 231, 191, 247, 151,   3,
    255,  25,  48, 179,  72, 165, 181, 209, 215,  94, 146,  42, 172,  86, 170, 198,
     79, 184,  56, 210, 150, 164, 125, 182, 118, 252, 107, 226, 156, 116,   4, 241,
     69, 157, 112,  89, 100, 113, 135,  32, 134,  91, 207, 101, 230,  45, 168,   2,
     27,  96,  37, 173, 174, 176, 185, 246,  28,  70,  97, 105,  52,  64, 126,  15,
     85,  71, 163,  35, 221,  81, 175,  58, 195,  92, 249, 206, 186, 197, 234,  38,
     44,  83,  13, 110, 133,  40, 132,   9, 211, 223, 205, 244,  65, 129,  77,  82,
    106, 220,  55, 200, 108, 193, 171, 250,  36, 225, 123,   8,  12, 189, 177,  74,
    120, 136, 149, 139, 227,  99, 232, 109, 233, 203, 213, 254,  59,   0,  29,  57,
    242, 239, 183,  14, 102,  88, 208, 228, 166, 119, 114, 248, 235, 117,  75,  10,
     49,  68,  80, 180, 143, 237,  31,  26, 219, 153, 141,  51, 159,  17, 131,  20 >>

SBOXI ==
  <<
    221,   7, 143,  95, 126,  18,  14,  70, 203, 183, 239,  76, 204, 178, 227, 159,
     74, 253,  47,  15, 255,  68,  39,  45,  43,  97, 247, 144, 152, 222,  32, 246,
    135,  79,  77, 163, 200, 146, 175,  87, 181,   0, 107,  26, 176, 141,   1,  61,
     98, 240,  86, 251, 156,  88,   9, 194, 114, 223, 167, 220,  35,   8,  89,  71,
    157, 188,  41,   2, 241, 128, 153, 161, 100,  55, 207, 238,  29, 190,  49, 112,
    242, 165, 191, 177,  10, 160, 109,  34, 229, 131,  84, 137, 169,  82, 105,  78,
    145, 154,  16, 213, 132, 139, 228,  40,  65, 155, 192, 122, 196, 215, 179,  42,
    130, 133, 234,  22, 125, 237, 120, 233, 208,  66,  63, 202,   6, 118, 158,  81,
     80, 189,  30, 254, 182, 180, 136, 134, 209,  75,  44, 211,  23, 250,  59, 244,
     85,  67, 106,  25,  72, 210, 116,  94,  24, 249,  83,  33, 124, 129,  53, 252,
     56,  11,   4, 162, 117, 101, 232,  17, 142,  64, 110, 198, 108, 147, 148, 166,
    149, 206,  69,  99, 243, 102, 119, 226, 113, 150, 172,  60,  28, 205,  48,  92,
     20, 197,  73, 168,  50, 173, 111,  21, 195,   3,  31, 217,  90, 186, 171, 138,
    230, 103, 115, 184,  37, 218,  51, 104,   5,  27,  52, 248, 193, 164,  54, 185,
     38, 201, 123, 212, 231,  46, 140,  91, 214, 216, 174, 236,  12, 245,  62, 225,
     13, 127, 224,  19, 187,  58, 151,  93, 235, 170, 199,  57, 121,  36, 219,  96 >>

(* XOR of two 4-bit values, NibbleXor[p + 1][q + 1] = p ^ q. *)
NibbleXor ==
  <<
    << 0,  1,  2,  3,  4,  5,  6,  7,  8,  9, 10, 11, 12, 13, 14, 15>>,
    << 1,  0,  3,  2,  5,  4,  7,  6,  9,  8, 11, 10, 13, 12, 15, 14>>,
    << 2,  3,  0,  1,  6,  7,  4,  5, 10, 11,  8,  9, 14, 15, 12, 13>>,
    << 3,  2,  1,  0,  7,  6,  5,  4, 11, 10,  9,  8, 15, 14, 13, 12>>,
    << 4,  5,  6,  7,  0,  1,  2,  3, 12, 13, 14, 15,  8,  9, 10, 11>>,
    << 5,  4,  7,  6,  1,  0,  3,  2, 13, 12, 15, 14,  9,  8, 11, 10>>,
    << 6,  7,  4,  5,  2,  3,  0,  1, 14, 15, 12, 13, 10, 11,  8,  9>>,
    << 7,  6,  5,  4,  3,  2,  1,  0, 15, 14, 13, 12, 11, 10,  9,  8>>,
    << 8,  9, 10, 11, 12, 13, 14, 15,  0,  1,  2,  3,  4,  5,  6,  7>>,
    << 9,  8, 11, 10, 13, 12, 15, 14,  1,  0,  3,  2,  5,  4,  7,  6>>,
    <<10, 11,  8,  9, 14, 15, 12, 13,  2,  3,  0,  1,  6,  7,  4,  5>>,
    <<11, 10,  9,  8, 15, 14, 13, 12,  3,  2,  1,  0,  7,  6,  5,  4>>,
    <<12, 13, 14, 15,  8,  9, 10, 11,  4,  5,  6,  7,  0,  1,  2,  3>>,
    <<13, 12, 15, 14,  9,  8, 11, 10,  5,  4,  7,  6,  1,  0,  3,  2>>,
    <<14, 15, 12, 13, 10, 11,  8,  9,  6,  7,  4,  5,  2,  3,  0,  1>>,
    <<15, 14, 13, 12, 11, 10,  9,  8,  7,  6,  5,  4,  3,  2,  1,  0>> >>

(* The ^ operator on u8. *)
Xor(p, q) ==
  16 * NibbleXor[(p \div 16) + 1][(q \div 16) + 1]
     + NibbleXor[(p % 16) + 1][(q % 16) + 1]

(* SBOX[t as uint] *)
Sub(t) == SBOX[t + 1]

(* SBOXI[t as uint], S2[t as uint] *)
SubInv(t) == SBOXI[t + 1]

(* The largest u8: `== 255` in ByteRange::next and in increase. *)
ByteMax == 255

(* repeat(c).take(n).collect() / Vec::from_elem(n, c) *)
Repeat(c, n) == [i \in 1 .. n |-> c]

(***************************************************************************)
(* XorSubTable[p + 1][q + 1] = p ^ SBOX[q], the one step every loop of the *)
(* two files is made of, tabulated once for all pairs of bytes.            *)
(***************************************************************************)
XorSubTable ==
  SubSeq([p \in 1 .. 256 |->
            SubSeq([q \in 1 .. 256 |-> Xor(p - 1, Sub(q - 1))], 1, 256)],
         1, 256)

(***************************************************************************)
(* Sixteen steps of the forward recurrence along a row,                    *)
(*     y[i] = SBOX[y[i - 1]] ^ above[i]  for i in off + 1 .. off + 16,     *)
(* with y[off] = t: one of the blocks T1, T2, T3 of a row from the row     *)
(* above it.  The result is << y[off + 1], ..., y[off + 16] >>.            *)
(***************************************************************************)
Chain16(above, t, off) ==
  LET y1  == XorSubTable[above[off + 1] + 1][t + 1]
      y2  == XorSubTable[above[off + 2] + 1][y1 + 1]
      y3  == XorSubTable[above[off + 3] + 1][y2 + 1]
      y4  == XorSubTable[above[off + 4] + 1][y3 + 1]
      y5  == XorSubTable[above[off + 5] + 1][y4 + 1]
      y6  == XorSubTable[above[off + 6] + 1][y5 + 1]
      y7  == XorSubTable[above[off + 7] + 1][y6 + 1]
      y8  == XorSubTable[above[off + 8] + 1][y7 + 1]
      y9  == XorSubTable[above[off + 9] + 1][y8 + 1]
      y10 == XorSubTable[above[off + 10] + 1][y9 + 1]
      y11 == XorSubTable[above[off + 11] + 1][y10 + 1]
      y12 == XorSubTable[above[off + 12] + 1][y11 + 1]
      y13 == XorSubTable[above[off + 13] + 1][y12 + 1]
      y14 == XorSubTable[above[off + 14] + 1][y13 + 1]
      y15 == XorSubTable[above[off + 15] + 1][y14 + 1]
      y16 == XorSubTable[above[off + 16] + 1][y15 + 1]
  IN  << y1, y2, y3, y4, y5, y6, y7, y8, y9, y10, y11, y12, y13, y14, y15, y16 >>

(* The blocks of a row so far, and the next block after them. *)
ChainNext(done, above) == done \o Chain16(above, done[Len(done)], Len(done))

(***************************************************************************)
(* A whole 48-byte row from the row above it and its t byte:               *)
(*     for i in range(1, 49) { row[i] = S[row[i - 1]] ^ above[i] }         *)
(***************************************************************************)
Chain48(above, t) == ChainNext(ChainNext(Chain16(above, t, 0), above), above)

(***************************************************************************)
(*                               lib.rs                                    *)
(***************************************************************************)

(* A sequence given as a function on 1 .. n, as the tuple of its values. *)
AsSeq(f, n) == SubSeq(f, 1, n)

(* Option<T>: None is << >>, Some(v) is << v >>. *)
None == << >>

Some(v) == << v >>

(* ByteRange::new(num_bytes) *)
ByteRangeNew(num_bytes) == [current |-> Repeat(0, num_bytes), done |-> FALSE]

(* ByteRange::next without the case of all bytes = top: the range ends     *)
(* with the vector before the last one.                                    *)
ByteRangeNextSkipLast(r, top) ==
  LET cur  == r.current
      live == {i \in 1 .. Len(cur) : cur[i] # top}
  IN  IF live # {}
      THEN LET i == CHOOSE j \in live : \A l \in live : l <= j
           IN  [range |-> [r EXCEPT !.current =
                             [j \in 1 .. Len(cur) |->
                                IF j < i THEN cur[j]
                                ELSE IF j = i THEN cur[j] + 1 ELSE 0]],
                ret   |-> Some(cur)]
      ELSE [range |-> [r EXCEPT !.done = TRUE], ret |-> None]

(* ByteRange::next looking at the last byte only: no carry into the bytes  *)
(* left of it.                                                             *)
ByteRangeNextNoCarry(r, top) ==
  LET cur == r.current
      i   == Len(cur)
  IN  IF cur[i] # top
      THEN [range |-> [r EXCEPT !.current = [cur EXCEPT ![i] = cur[i] + 1]],
            ret   |-> Some(cur)]
      ELSE IF r.done
           THEN [range |-> r, ret |-> None]
           ELSE [range |-> [r EXCEPT !.done = TRUE], ret |-> Some(cur)]

(***************************************************************************)
(* ByteRange::next.  top is the byte value that cannot be increased, 255   *)
(* in the source.  The loop finds the last index i with current[i] # top,  *)
(* returns the vector as it is, increases current[i] and zeroes the bytes  *)
(* right of i; with no such index the vector of all top is returned once.  *)
(* The result is the range after the call and the value returned.          *)
(***************************************************************************)
ByteRangeNext(r, top) ==
  LET cur  == r.current
      live == {i \in 1 .. Len(cur) : cur[i] # top}
  IN  IF live # {}
      THEN LET i == CHOOSE j \in live : \A l \in live : l <= j
           IN  [range |-> [r EXCEPT !.current =
                             [j \in 1 .. Len(cur) |->
                                IF j < i THEN cur[j]
                                ELSE IF j = i THEN cur[j] + 1 ELSE 0]],
                ret   |-> Some(cur)]
      ELSE IF r.done
           THEN [range |-> r, ret |-> None]
           ELSE [range |-> [r EXCEPT !.done = TRUE], ret |-> Some(cur)]

(* [[0u8; 49]; 19] *)
ZeroTable == AsSeq([r \in 1 .. 19 |-> AsSeq([c \in 1 .. 49 |-> 0], 49)], 19)

(* The first loop without `state[row][48] = state[row][16]`: the copy of   *)
(* the last byte of T1 into T3 is missing, and t is taken from the byte    *)
(* that is there.                                                          *)
FillT1RowNoT3Copy(st, row) ==
  LET t1  == Chain16(Tail(st[row]), st[row + 1][1], 0)
      cur == AsSeq([c \in 1 .. 49 |->
                      IF c = 1 THEN st[row + 1][1]
                      ELSE IF c <= 17 THEN t1[c - 1]
                      ELSE IF c = 33 THEN t1[16]
                      ELSE st[row + 1][c]], 49)
  IN  [st EXCEPT ![row + 1] = cur, ![row + 2][1] = (cur[49] + row + 255) % 256]

(***************************************************************************)
(* One pass of the first loop of prefill_row and of create_initial_state:  *)
(* row `row` of T1 from the row above, the two copies of its last byte in  *)
(* columns 32 and 48, and the t byte of the next row.                      *)
(***************************************************************************)
FillT1Row(st, row) ==
  LET t1  == Chain16(Tail(st[row]), st[row + 1][1], 0)
      cur == AsSeq([c \in 1 .. 49 |->
                      IF c = 1 THEN st[row + 1][1]
                      ELSE IF c <= 17 THEN t1[c - 1]
                      ELSE IF c = 33 \/ c = 49 THEN t1[16]
                      ELSE st[row + 1][c]], 49)
  IN  [st EXCEPT ![row + 1] = cur, ![row + 2][1] = (t1[16] + row + 255) % 256]

RECURSIVE FillT1Rows(_, _, _)
FillT1Rows(st, row, last) ==
  IF row > last THEN st ELSE FillT1Rows(FillT1Row(st, row), row + 1, last)

(***************************************************************************)
(* One pass of the outer triangle loop of prefill_row: for row from        *)
(* num_rows down to 2 + col, the xor of column 32 - col with the row above *)
(* gives state[row][32 - col - 1] and state[row][48 - col - 1].  The pass  *)
(* reads column 32 - col and writes columns 31 - col and 47 - col, so its  *)
(* rows do not depend on one another.                                      *)
(***************************************************************************)
PrefillTriangleCol(st, col, num_rows) ==
  AsSeq([r \in 1 .. 19 |->
     IF r - 1 >= 2 + col /\ r - 1 <= num_rows
     THEN [st[r] EXCEPT
             ![32 - col] = SubInv(Xor(st[r][33 - col], st[r - 1][33 - col])),
             ![48 - col] = SubInv(Xor(st[r][33 - col], st[r - 1][33 - col]))]
     ELSE st[r]], 19)

RECURSIVE PrefillTriangles(_, _, _)
PrefillTriangles(st, col, num_rows) ==
  IF col >= num_rows THEN st
  ELSE PrefillTriangles(PrefillTriangleCol(st, col, num_rows), col + 1, num_rows)

(* prefill_row: row num_rows of the table without its t byte, 48 bytes. *)
prefill_row(num_rows) ==
  Tail(PrefillTriangles(FillT1Rows(ZeroTable, 1, num_rows), 0, num_rows)[num_rows + 1])

(* The loop of compress: rounds row..17, each a whole row and t += row. *)
RECURSIVE CompressRounds(_, _, _)
CompressRounds(x, t, row) ==
  IF row >= 18 THEN x
  ELSE LET y == Chain48(x, t)
       IN  CompressRounds(y, (y[48] + row) % 256, row + 1)

(* compress with the key cut to its first byte, x[..1]. *)
compressFirstByte(state, iteration) ==
  SubSeq(CompressRounds(state, (state[48] + iteration + 255) % 256, iteration), 1, 1)

(***************************************************************************)
(* compress: t = state[47] + iteration - 1, the rounds iteration..17 of    *)
(* the MD2 compression function on the 48 bytes, and x[..16].              *)
(***************************************************************************)
compress(state, iteration) ==
  SubSeq(CompressRounds(state, (state[48] + iteration + 255) % 256, iteration), 1, 16)

(***************************************************************************)
(* One pass of the loop of decompress: x[col] ^= SBOX[x[col - 1]] for col  *)
(* from 47 down to 1 reads only bytes the pass has not changed yet; x[0]   *)
(* is then xored with SBOX[t], t = x[47] + row - 1 from the new x[47].     *)
(***************************************************************************)
DecompressRound(x, row) ==
  AsSeq([i \in 1 .. 48 |->
           IF i = 1
           THEN XorSubTable[x[1] + 1]
                           [((XorSubTable[x[48] + 1][x[47] + 1] + row + 255) % 256) + 1]
           ELSE XorSubTable[x[i] + 1][x[i - 1] + 1]], 48)

RECURSIVE DecompressRounds(_, _)
DecompressRounds(x, row) ==
  IF row < 0 THEN x ELSE DecompressRounds(DecompressRound(x, row), row - 1)

(* decompress with the slice one byte early, x[15..31]. *)
decompressShifted(state, iteration) ==
  SubSeq(DecompressRounds(state, iteration - 1), 16, 31)

(* decompress: the rounds iteration - 1 .. 0 backwards, and x[16..32]. *)
decompress(state, iteration) ==
  SubSeq(DecompressRounds(state, iteration - 1), 17, 32)

(***************************************************************************)
(* copy_memory(self.state.slice_mut(16, 18), bytes) and                    *)
(* copy_memory(self.state.slice_mut(32, 34), bytes), bytes of length 2.    *)
(***************************************************************************)
SetCandidateBytes(state, bytes) ==
  [state EXCEPT ![17] = bytes[1], ![18] = bytes[2],
                ![33] = bytes[1], ![34] = bytes[2]]

(* candidates(state, row): a range of 2 bytes over a copy of the state. *)
candidates(state, row) ==
  [range |-> ByteRangeNew(2), state |-> state, row |-> row]

(***************************************************************************)
(* Candidates::next: None when the range is exhausted, else the pair       *)
(* (cmp, msg) for the next two bytes.  The result is the iterator after    *)
(* the call and the value returned.                                        *)
(***************************************************************************)
CandidatesNext(c, top) ==
  LET next == ByteRangeNext(c.range, top)
  IN  IF next.ret = None
      THEN [cand |-> [c EXCEPT !.range = next.range], ret |-> None]
      ELSE LET state == SetCandidateBytes(c.state, next.ret[1])
           IN  [cand |-> [c EXCEPT !.range = next.range, !.state = state],
                ret  |-> Some(<< compress(state, c.row), decompress(state, c.row) >>)]

(***************************************************************************)
(* Up to n iterations of `for (cmp, msg) in candidates(..)`: the iterator  *)
(* after them, the pairs it gave in order, and whether it has ended.  The  *)
(* first half of the calls is made, then the second half from where the    *)
(* first left the iterator.                                                *)
(***************************************************************************)
RECURSIVE RunNext(_, _, _)
RunNextRest(left, n, top) ==
  IF left.ended \/ n = 0 THEN left
  ELSE LET right == RunNext(left.cand, n, top)
       IN  [cand |-> right.cand, out |-> left.out \o right.out, ended |-> right.ended]

RunNext(c, n, top) ==
  IF n = 1
  THEN LET r == CandidatesNext(c, top)
       IN  [cand |-> r.cand, out |-> r.ret, ended |-> r.ret = None]
  ELSE RunNextRest(RunNext(c, n \div 2, top), n - (n \div 2), top)

(* HashMap::new(): no key. *)
EmptyMap == << >>

(* insert with the Occupied arm replacing the bucket instead of pushing. *)
insertReplacing(map, cmp, msg) ==
  IF cmp \in DOMAIN map
  THEN [map EXCEPT ![cmp] = << msg >>]
  ELSE map @@ (cmp :> << msg >>)

(* test::insert: a new bucket vec!(msg), or msg pushed onto the bucket. *)
insert(map, cmp, msg) ==
  IF cmp \in DOMAIN map
  THEN [map EXCEPT ![cmp] = Append(@, msg)]
  ELSE map @@ (cmp :> << msg >>)

(* The messages of the pairs with the given key, in the order of the pairs. *)
MsgsOf(pairs, key) ==
  LET hits == SelectSeq(pairs, LAMBDA c : c[1] = key)
  IN  [i \in 1 .. Len(hits) |-> hits[i][2]]

(***************************************************************************)
(* insert(&mut map, cmp, msg) for every pair of a sequence, in order: each *)
(* key has its old bucket followed by the messages of its pairs.           *)
(***************************************************************************)
InsertAll(map, pairs) ==
  LET keys == {pairs[i][1] : i \in 1 .. Len(pairs)}
      old  == DOMAIN map
  IN  [key \in keys |->
         IF key \in old THEN map[key] \o MsgsOf(pairs, key)
         ELSE MsgsOf(pairs, key)] @@ map

(***************************************************************************)
(* test::count: the fold of count + msgs.len() - 1 over the buckets, the   *)
(* number of entries that are not the first of their bucket.               *)
(***************************************************************************)
count(map) ==
  Cardinality(UNION {{<< key, i >> : i \in 2 .. Len(map[key])} : key \in DOMAIN map})

(***************************************************************************)
(* md2::compress(&state, msg) / md2_compress(&state, msg) of the md2       *)
(* crate, the MD2 compression function of RFC 1319 with the state given:   *)
(* X = state, msg, state ^ msg; 18 rounds over the 48 bytes with           *)
(* t = (t + round) mod 256 after each; the first 16 bytes are the result.  *)
(***************************************************************************)
RECURSIVE Md2Rounds(_, _, _)
Md2Rounds(x, t, round) ==
  IF round >= 18 THEN x
  ELSE LET y == Chain48(x, t)
       IN  Md2Rounds(y, (y[48] + round) % 256, round + 1)

md2_compress(initial, message) ==
  SubSeq(Md2Rounds(initial \o message
                     \o AsSeq([i \in 1 .. 16 |-> Xor(initial[i], message[i])], 16),
                   0, 0), 1, 16)

(* let empty = [0u8; 16] *)
empty == AsSeq(Repeat(0, 16), 16)

(***************************************************************************)
(* test::validate: every message of every bucket with more than one        *)
(* message compresses from the empty state to the key of its bucket.       *)
(***************************************************************************)
validate(map) ==
  \A key \in DOMAIN map :
     Len(map[key]) > 1 =>
       \A i \in 1 .. Len(map[key]) : md2_compress(empty, map[key][i]) = key
(***************************************************************************)
(*                               main.rs                                   *)
(*                                                                         *)
(* The table [[u8, ..49], ..19] is a sequence of 19 rows of 49 bytes:      *)
(* state[row][col] of the source is st[row + 1][col + 1].                  *)
(***************************************************************************)

(***************************************************************************)
(* One pass of the outer triangle loop of create_initial_state: for row    *)
(* from rows down to 2 + col, values[row][32 - col - 1] from column        *)
(* 32 - col and values[row][48 - col - 1] from column 48 - col, each with  *)
(* the row above.  The pass reads columns 32 - col and 48 - col and writes *)
(* columns 31 - col and 47 - col, so its rows do not depend on one         *)
(* another.                                                                *)
(***************************************************************************)
InitialTriangleCol(st, col, rows) ==
  AsSeq([r \in 1 .. 19 |->
     IF r - 1 >= 2 + col /\ r - 1 <= rows
     THEN [st[r] EXCEPT
             ![32 - col] = SubInv(Xor(st[r][33 - col], st[r - 1][33 - col])),
             ![48 - col] = SubInv(Xor(st[r][49 - col], st[r - 1][49 - col]))]
     ELSE st[r]], 19)

RECURSIVE InitialTriangles(_, _, _)
InitialTriangles(st, col, rows) ==
  IF col >= rows THEN st
  ELSE InitialTriangles(InitialTriangleCol(st, col, rows), col + 1, rows)

(***************************************************************************)
(* create_initial_state(k): rows = 16 - k; the first loop has the text of  *)
(* the first loop of prefill_row (FillT1Row), the second fills the         *)
(* triangles of T2 and T3.                                                 *)
(***************************************************************************)
create_initial_state(k) ==
  InitialTriangles(FillT1Rows(ZeroTable, 1, 16 - k), 0, 16 - k)

(* The trial bytes xored onto the bytes that are there, not copied. *)
WriteTrialAccumulating(st, rows, bytes) ==
  [st EXCEPT ![rows + 1] =
     AsSeq([c \in 1 .. 49 |->
              IF c - 1 >= 17 /\ c - 1 < 17 + Len(bytes)
              THEN Xor(st[rows + 1][c], bytes[c - 17])
              ELSE IF c - 1 >= 33 /\ c - 1 < 33 + Len(bytes)
              THEN Xor(st[rows + 1][c], bytes[c - 33])
              ELSE st[rows + 1][c]], 49)]

(***************************************************************************)
(* The two copy_memory calls of find_collisions: the k trial bytes into    *)
(* state[rows][17 .. 17 + k] and into state[rows][33 .. 33 + k].           *)
(***************************************************************************)
WriteTrial(st, rows, bytes) ==
  [st EXCEPT ![rows + 1] =
     AsSeq([c \in 1 .. 49 |->
              IF c - 1 >= 17 /\ c - 1 < 17 + Len(bytes) THEN bytes[c - 17]
              ELSE IF c - 1 >= 33 /\ c - 1 < 33 + Len(bytes) THEN bytes[c - 33]
              ELSE st[rows + 1][c]], 49)]

(***************************************************************************)
(* The forward loop of find_collisions from row `row` on:                  *)
(*   for row in range(rows + 1, 18) {                                      *)
(*     for i in range(1, 49) { state[row][i] = S[state[row][i-1]] ^ state[row-1][i] } *)
(*     state[row + 1][0] = state[row][48] + row - 1 }                      *)
(***************************************************************************)
RECURSIVE ForwardRows(_, _)
ForwardRows(st, row) ==
  IF row >= 18 THEN st
  ELSE LET t == st[row + 1][1]
           y == Chain48(Tail(st[row]), t)
       IN  ForwardRows([st EXCEPT ![row + 1] = << t >> \o y,
                                  ![row + 2][1] = (y[48] + row + 255) % 256],
                       row + 1)

(* let key = Vec::from_fn(17 - rows, |row| state[rows + 2 + row][0]) *)
Key(st, rows) == AsSeq([row \in 1 .. 17 - rows |-> st[rows + 2 + row][1]], 17 - rows)

(* The backward pass with one column more, col <= 32 - row + 2. *)
BackwardRowOneMore(st, row) ==
  [st EXCEPT ![row] =
     AsSeq([c \in 1 .. 49 |->
              IF c - 1 >= 17 /\ c - 1 <= 32 - row + 2
              THEN XorSubTable[st[row + 1][c] + 1][st[row + 1][c - 1] + 1]
              ELSE st[row][c]], 49)]

(***************************************************************************)
(* One pass of the backward loop of find_collisions:                       *)
(*   for col in range(17, 32 - row + 2) {                                  *)
(*     state[row - 1][col] = S[state[row][col - 1]] ^ state[row][col] }    *)
(* It writes row - 1 and reads row.                                        *)
(***************************************************************************)
BackwardRow(st, row) ==
  [st EXCEPT ![row] =
     AsSeq([c \in 1 .. 49 |->
              IF c - 1 >= 17 /\ c - 1 < 32 - row + 2
              THEN XorSubTable[st[row + 1][c] + 1][st[row + 1][c - 1] + 1]
              ELSE st[row][c]], 49)]

(* The backward loop over an empty range of rows: no pass is made. *)
BackwardRowsNone(st, row) == st

(* for row in range(1, rows + 1).rev() { ... } *)
RECURSIVE BackwardRows(_, _)
BackwardRows(st, row) ==
  IF row < 1 THEN st ELSE BackwardRows(BackwardRow(st, row), row - 1)

(* state[0].slice(17, 33).to_vec() *)
Message(st) == SubSeq(st[1], 18, 33)

(* increase that stops at the last byte: no carry into the bytes left. *)
increaseNoCarry(num, top) ==
  IF num[Len(num)] # top
  THEN [num |-> [num EXCEPT ![Len(num)] = num[Len(num)] + 1], ret |-> TRUE]
  ELSE [num |-> num, ret |-> FALSE]

(***************************************************************************)
(* increase(num): the last index i with num[i] # top (255 in the source)   *)
(* is increased and the bytes right of it are zeroed, returning true; with *)
(* no such index num is left as it is and false is returned.               *)
(***************************************************************************)
increase(num, top) ==
  LET live == {i \in 1 .. Len(num) : num[i] # top}
  IN  IF live # {}
      THEN LET i == CHOOSE j \in live : \A l \in live : l <= j
           IN  [num |-> [j \in 1 .. Len(num) |->
                           IF j < i THEN num[j]
                           ELSE IF j = i THEN num[j] + 1 ELSE 0],
                ret |-> TRUE]
      ELSE [num |-> num, ret |-> FALSE]

(***************************************************************************)
(* check_collisions: in every collision, every message has the             *)
(* md2_compress from the empty state that the first message has.           *)
(***************************************************************************)
check_collisions(collisions) ==
  \A c \in 1 .. Len(collisions) :
     \A m \in 1 .. Len(collisions[c]) :
        md2_compress(empty, collisions[c][m]) = md2_compress(empty, collisions[c][1])

(***************************************************************************)
(*                          The state machines                             *)
(*                                                                         *)
(* rng     a byte counter in use: a ByteRange under next() calls, or the   *)
(*         bytes of the loop of find_collisions under increase             *)
(* walk    the table of find_collisions under its two walks                *)
(* search  a whole single-threaded search: test_k2, or main                *)
(* pool    test_k3: the task pool, the channel and the driver              *)
(*                                                                         *)
(* Each specification runs one of them and leaves the others Idle.         *)
(***************************************************************************)
VARIABLES rng, walk, search, pool

vars == << rng, walk, search, pool >>

Idle == [pc |-> "idle"]

(***************************************************************************)
(*                     SpecRange: the byte counters                        *)
(***************************************************************************)

(* The counters have 1 .. MaxLen bytes. *)
MaxLen == 2

(* next() is called up to MaxExtraCalls times after the first None. *)
MaxExtraCalls == 2

RECURSIVE Pow256(_)
Pow256(k) == IF k = 0 THEN 1 ELSE 256 * Pow256(k - 1)

(* The n-th vector of k bytes in lexicographic order, counted from 0. *)
NthVector(n, k) == AsSeq([i \in 1 .. k |-> (n \div Pow256(k - i)) % 256], k)

(***************************************************************************)
(* A fresh ByteRange::new(k) with the number of next() calls made and the  *)
(* value the last call returned; or find_collisions at the head of its     *)
(* loop with bytes = Vec::from_elem(k, 0u8), the number of trials walked   *)
(* and the last trial walked.                                              *)
(***************************************************************************)
RangeInit ==
  /\ rng \in {[unit |-> "ByteRange", k |-> k, range |-> ByteRangeNew(k),
               calls |-> 0, ret |-> None] : k \in 1 .. MaxLen}
        \cup {[unit |-> "increase", k |-> k, bytes |-> AsSeq(Repeat(0, k), k),
               walked |-> 0, last |-> None, pc |-> "loop"] : k \in 1 .. MaxLen}
  /\ walk = Idle
  /\ search = Idle
  /\ pool = Idle

(* One call of ByteRange::next. *)
RangeNextResult(r) ==
  LET n == ByteRangeNext(r.range, ByteMax)
  IN  [r EXCEPT !.range = n.range, !.calls = r.calls + 1, !.ret = n.ret]

RangeNext ==
  /\ rng.unit = "ByteRange"
  /\ rng.calls < Pow256(rng.k) + MaxExtraCalls
  /\ rng' = RangeNextResult(rng)
  /\ UNCHANGED << walk, search, pool >>

(***************************************************************************)
(* One pass of the loop of find_collisions as far as the counter goes: the *)
(* trial in bytes is walked, then `if !increase(bytes) { break }`.         *)
(***************************************************************************)
LoopIterationResult(r) ==
  LET n == increase(r.bytes, ByteMax)
  IN  [r EXCEPT !.bytes = n.num, !.walked = r.walked + 1, !.last = Some(r.bytes),
                !.pc = IF n.ret THEN "loop" ELSE "break"]

LoopIteration ==
  /\ rng.unit = "increase"
  /\ rng.pc = "loop"
  /\ rng' = LoopIterationResult(rng)
  /\ UNCHANGED << walk, search, pool >>

RangeStep == RangeNext \/ LoopIteration

SpecRange == RangeInit /\ [][RangeStep]_vars

(***************************************************************************)
(* C1.  The i-th call of next() on a fresh ByteRange of k bytes returns    *)
(* the i-th vector of k bytes in lexicographic order for i = 1 .. 256^k,   *)
(* the last of them 255^k, and every later call returns None; the loop of  *)
(* find_collisions walks the i-th vector in its i-th pass and breaks after *)
(* pass 256^k, the one that walks 255^k.                                   *)
(***************************************************************************)
C1_CounterEnumeratesAll ==
  /\ (rng.unit = "ByteRange" /\ rng.calls > 0) =>
        rng.ret = IF rng.calls <= Pow256(rng.k)
                  THEN Some(NthVector(rng.calls - 1, rng.k))
                  ELSE None
  /\ rng.unit = "increase" =>
        /\ rng.walked <= Pow256(rng.k)
        /\ rng.walked > 0 => rng.last = Some(NthVector(rng.walked - 1, rng.k))
        /\ (rng.pc = "break") = (rng.walked = Pow256(rng.k))

(* A ByteRange that gave 255^k in its call 256^k and None in the next. *)
C1_Witness ==
  /\ rng.unit = "ByteRange"
  /\ rng.calls = Pow256(rng.k) + 1
  /\ rng.ret = None
  /\ rng.range.current = AsSeq(Repeat(ByteMax, rng.k), rng.k)

(***************************************************************************)
(*        SpecWalk: the table of find_collisions, and a Candidates         *)
(***************************************************************************)

(* find_collisions is run for k = 1 .. MaxK free bytes. *)
MaxK == 14

(* The trials written are the first NumTrials of Trial(1, k), Trial(2, k), ... *)
NumTrials == 3

(* A Candidates is asked for up to MaxCandidatesCalls candidates. *)
MaxCandidatesCalls == 258

(***************************************************************************)
(* The trials: the first two the counter gives, 0^k and 0^(k-1) 1; then    *)
(* 255^k, the last; then mixed bytes.                                      *)
(***************************************************************************)
Trial(j, k) ==
  AsSeq([i \in 1 .. k |->
           IF j = 1 THEN 0
           ELSE IF j = 2 THEN (IF i = k THEN 1 ELSE 0)
           ELSE IF j = 3 THEN ByteMax
           ELSE (37 * i * j + 11 * k + j) % 256], k)

(* create_initial_state(k) for each k, computed once. *)
InitialStates == AsSeq([k \in 1 .. MaxK + 1 |-> create_initial_state(k)], MaxK + 1)

(* prefill_row(num_rows) for the rows of test_k3 and test_k2. *)
PrefilledRows == (13 :> prefill_row(13)) @@ (14 :> prefill_row(14))

(***************************************************************************)
(* find_collisions(create_initial_state(k), k) between two walks, with the *)
(* trial last written, << trial, key >> of the last forward walk,          *)
(* << trial, message >> of the last backward walk and of the one before    *)
(* it; or candidates(prefill_row(row), row) with the number of next()      *)
(* calls made, the last result and the one before it.                      *)
(***************************************************************************)
WalkInit ==
  /\ walk \in {[unit |-> "table", k |-> k, rows |-> 16 - k, pc |-> "ready",
                state |-> InitialStates[k], bytes |-> None, fwd |-> None,
                bwd |-> None, prev |-> None] : k \in 1 .. MaxK}
         \cup {[unit |-> "Candidates", k |-> 2, pc |-> "next",
                cand |-> candidates(PrefilledRows[row], row),
                calls |-> 0, ret |-> None, prev |-> None] : row \in {13, 14}}
  /\ rng = Idle
  /\ search = Idle
  /\ pool = Idle

(* The two copy_memory calls at the head of the loop of find_collisions. *)
WriteForward(b) ==
  /\ walk.pc = "ready"
  /\ walk' = [walk EXCEPT !.pc = "forward", !.bytes = b,
                          !.state = WriteTrial(walk.state, walk.rows, b)]
  /\ UNCHANGED << rng, search, pool >>

(* The forward loop and the key. *)
ForwardWalkResult(w) ==
  LET st == ForwardRows(w.state, w.rows + 1)
  IN  [w EXCEPT !.pc = "ready", !.state = st,
                !.fwd = Some(<< w.bytes, Key(st, w.rows) >>)]

ForwardWalk ==
  /\ walk.unit = "table"
  /\ walk.pc = "forward"
  /\ walk' = ForwardWalkResult(walk)
  /\ UNCHANGED << rng, search, pool >>

(* The two copy_memory calls of the closure that recovers a message. *)
WriteBackward(b) ==
  /\ walk.pc = "ready"
  /\ walk' = [walk EXCEPT !.pc = "backward", !.bytes = b,
                          !.state = WriteTrial(walk.state, walk.rows, b)]
  /\ UNCHANGED << rng, search, pool >>

(* The backward loop and the message. *)
BackwardWalkResult(w) ==
  LET st == BackwardRows(w.state, w.rows)
  IN  [w EXCEPT !.pc = "ready", !.state = st,
                !.bwd = Some(<< w.bytes, Message(st) >>), !.prev = w.bwd]

BackwardWalk ==
  /\ walk.unit = "table"
  /\ walk.pc = "backward"
  /\ walk' = BackwardWalkResult(walk)
  /\ UNCHANGED << rng, search, pool >>

(* One call of Candidates::next. *)
CandidatesCallResult(w) ==
  LET r == CandidatesNext(w.cand, ByteMax)
  IN  [w EXCEPT !.cand = r.cand, !.calls = w.calls + 1, !.ret = r.ret, !.prev = w.ret]

CandidatesCall ==
  /\ walk.unit = "Candidates"
  /\ walk.calls < MaxCandidatesCalls
  /\ walk' = CandidatesCallResult(walk)
  /\ UNCHANGED << rng, search, pool >>

WalkStep ==
  \/ \E j \in 1 .. NumTrials : WriteForward(Trial(j, walk.k))
  \/ ForwardWalk
  \/ \E j \in 1 .. NumTrials : WriteBackward(Trial(j, walk.k))
  \/ BackwardWalk
  \/ CandidatesCall

SpecWalk == WalkInit /\ [][WalkStep]_vars

(* The cells of the table, as << row, col >> of the source. *)
Cells == (0 .. 18) \X (0 .. 48)

(* The cells in which two tables differ. *)
Changed(s, t) == {c \in Cells : s[c[1] + 1][c[2] + 1] # t[c[1] + 1][c[2] + 1]}

(* The cells create_initial_state fills in columns 0 .. 16. *)
PrefilledT1(rows) ==
  {c \in Cells : c[2] <= 16 /\ (c[1] \in 1 .. rows \/ (c[1] = rows + 1 /\ c[2] = 0))}

(***************************************************************************)
(* C4.  In the table of create_initial_state(k), k = 1 .. MaxK, and in     *)
(* every table reached from it by trial writes and forward and backward    *)
(* walks, S[row][16] = S[row][32] = S[row][48] for every row in 1 .. rows; *)
(* the row prefill_row returns, and the state of a Candidates made from it *)
(* after any number of next() calls, has its bytes 15, 31 and 47 equal.    *)
(***************************************************************************)
C4_LastBytesEqual ==
  /\ walk.unit = "table" =>
        \A row \in 1 .. walk.rows :
           /\ walk.state[row + 1][17] = walk.state[row + 1][33]
           /\ walk.state[row + 1][17] = walk.state[row + 1][49]
  /\ walk.unit = "Candidates" =>
        /\ walk.cand.state[16] = walk.cand.state[32]
        /\ walk.cand.state[16] = walk.cand.state[48]

(* The table for k = 1, all its 15 rows prefilled, after walks both ways. *)
C4_Witness ==
  /\ walk.unit = "table"
  /\ walk.k = 1
  /\ walk.pc = "ready"
  /\ walk.fwd # None
  /\ walk.bwd # None

(***************************************************************************)
(* C5.  The key of a forward walk and the message of a backward walk on    *)
(* the table as the earlier walks left it are those of the same walk on a  *)
(* fresh create_initial_state(k); the pair a Candidates returns in its     *)
(* i-th call is compress and decompress of the fresh prefilled row with    *)
(* the i-th pair of bytes written into it.                                 *)
(***************************************************************************)
C5_WalkerIsPure ==
  /\ (walk.unit = "table" /\ walk.fwd # None) =>
        walk.fwd[1][2] =
          Key(ForwardRows(WriteTrial(InitialStates[walk.k], walk.rows, walk.fwd[1][1]),
                          walk.rows + 1), walk.rows)
  /\ (walk.unit = "table" /\ walk.bwd # None) =>
        walk.bwd[1][2] =
          Message(BackwardRows(WriteTrial(InitialStates[walk.k], walk.rows, walk.bwd[1][1]),
                               walk.rows))
  /\ (walk.unit = "Candidates" /\ walk.ret # None) =>
        LET fresh == SetCandidateBytes(PrefilledRows[walk.cand.row],
                                       NthVector(walk.calls - 1, 2))
        IN  walk.ret = Some(<< compress(fresh, walk.cand.row),
                               decompress(fresh, walk.cand.row) >>)

(* A forward walk made after backward walks of two other trials. *)
C5_Witness ==
  /\ walk.unit = "table"
  /\ walk.pc = "ready"
  /\ walk.fwd # None
  /\ walk.prev # None
  /\ walk.bytes = walk.fwd[1][1]
  /\ walk.bwd[1][1] # walk.bytes
  /\ walk.prev[1][1] # walk.bytes

(***************************************************************************)
(* C6 as stated.  A forward loop changes only cells in columns 17 .. 48 of *)
(* rows >= rows, a backward loop only cells in columns 17 .. 32 of rows    *)
(* 0 .. rows - 1, and neither changes a prefilled cell of columns 0 .. 16. *)
(***************************************************************************)
C6_FrameAsStated ==
  [][walk.unit = "table" =>
       /\ walk.pc = "forward" =>
            Changed(walk.state, walk'.state) \subseteq
              {c \in Cells : c[1] >= walk.rows /\ c[2] >= 17}
       /\ walk.pc = "backward" =>
            Changed(walk.state, walk'.state) \subseteq
              {c \in Cells : c[1] < walk.rows /\ c[2] >= 17 /\ c[2] <= 32}
       /\ walk.pc \in {"forward", "backward"} =>
            Changed(walk.state, walk'.state) \cap PrefilledT1(walk.rows) = {}]_vars

(***************************************************************************)
(* C6.  A trial write changes only the k trial cells of row rows in T2     *)
(* (columns 17 .. 16 + k) and in T3 (columns 33 .. 32 + k).  A forward     *)
(* loop changes only columns 1 .. 48 of rows rows + 1 .. 17 and column 0   *)
(* of rows rows + 2 .. 18.  A backward loop changes only the cells of rows *)
(* r = 0 .. rows - 1 in columns 17 .. 32 - r.  No step changes a prefilled *)
(* cell of columns 0 .. 16.                                                *)
(***************************************************************************)
C6_Frame ==
  [][walk.unit = "table" =>
       /\ walk.pc = "ready" =>
            Changed(walk.state, walk'.state) \subseteq
              {c \in Cells : /\ c[1] = walk.rows
                             /\ \/ c[2] \in 17 .. 16 + walk.k
                                \/ c[2] \in 33 .. 32 + walk.k}
       /\ walk.pc = "forward" =>
            Changed(walk.state, walk'.state) \subseteq
              {c \in Cells : \/ c[1] \in walk.rows + 1 .. 17 /\ c[2] >= 1
                             \/ c[1] \in walk.rows + 2 .. 18 /\ c[2] = 0}
       /\ walk.pc = "backward" =>
            Changed(walk.state, walk'.state) \subseteq
              {c \in Cells : c[1] < walk.rows /\ c[2] >= 17 /\ c[2] <= 32 - c[1]}
       /\ Changed(walk.state, walk'.state) \cap PrefilledT1(walk.rows) = {}]_vars

(* The table for k = 3 after a forward walk of 255^3 and a backward walk. *)
C6_Witness ==
  /\ walk.unit = "table"
  /\ walk.k = 3
  /\ walk.pc = "ready"
  /\ walk.fwd # None
  /\ walk.fwd[1][1] = << ByteMax, ByteMax, ByteMax >>
  /\ walk.bwd # None

PoolTop == 1

(* TaskPool::new(NumThreads) *)
NumThreads == 2

(* The channel holds up to MaxChan candidates sent and not yet received. *)
MaxChan == 2

(* The total of test_k2, 256u * 256u, taken for that of test_k3. *)
TotalOfTwoBytes == (PoolTop + 1) * (PoolTop + 1)

(* let total = 256u * 256u * 256u with 256 = PoolTop + 1 *)
Total == (PoolTop + 1) * (PoolTop + 1) * (PoolTop + 1)

(* The candidates of one job: ByteRange::new(2) gives 256 * 256 vectors. *)
ShardSize == (PoolTop + 1) * (PoolTop + 1)

(* The closure with `state[34] = byte as u8` missing. *)
SetShardByteT2Only(state, byte) == [state EXCEPT ![19] = byte]

(* state[18] = byte as u8; state[34] = byte as u8; *)
SetShardByte(state, byte) == [state EXCEPT ![19] = byte, ![35] = byte]

(* The trial a Candidates has in its state: the bytes 16 .. 18 of T2. *)
TrialOf(state) == << state[17], state[18], state[19] >>

(***************************************************************************)
(* test_k3 after TaskPool::new, channel() and prefill_row(13): no job yet, *)
(* the channel and the map empty.                                          *)
(***************************************************************************)
PoolStart ==
  [pc |-> "execute", byte |-> 0, jobs |-> << >>, chan |-> << >>,
   map |-> EmptyMap, received |-> 0, valid |-> None, counted |-> None]

PoolInit ==
  /\ pool = PoolStart
  /\ rng = Idle
  /\ walk = Idle
  /\ search = Idle

(***************************************************************************)
(* One pass of `for byte in range(0u, 256u)`: state.clone() and            *)
(* pool.execute(closure) put a job at the end of the pool's queue.         *)
(***************************************************************************)
ExecuteResult(p) ==
  [p EXCEPT !.jobs = Append(p.jobs, [byte |-> p.byte, at |-> "queued",
                                     state |-> PrefilledRows[13], cand |-> None,
                                     sent |-> 0, walked |-> << >>]),
            !.byte = p.byte + 1,
            !.pc = IF p.byte = PoolTop THEN "recv" ELSE "execute"]

CanExecute(p) == p.pc = "execute"

Execute ==
  /\ CanExecute(pool)
  /\ pool' = ExecuteResult(pool)
  /\ UNCHANGED << rng, walk, search >>

(* The jobs a thread of the pool is running. *)
Running(p) == {j \in 1 .. Len(p.jobs) : p.jobs[j].at = "running"}

(***************************************************************************)
(* A free thread takes the first job of the queue and runs the closure up  *)
(* to its loop: the two bytes are set and candidates(state[], 13) is made. *)
(***************************************************************************)
StartJobResult(p, j) ==
  LET state == SetShardByte(p.jobs[j].state, p.jobs[j].byte)
  IN  [p EXCEPT !.jobs[j] = [p.jobs[j] EXCEPT !.at = "running", !.state = state,
                                              !.cand = Some(candidates(state, 13))]]

CanStartJob(p, j) ==
  /\ j \in 1 .. Len(p.jobs)
  /\ p.jobs[j].at = "queued"
  /\ \A i \in 1 .. j - 1 : p.jobs[i].at # "queued"
  /\ Cardinality(Running(p)) < NumThreads

StartJob(j) ==
  /\ CanStartJob(pool, j)
  /\ pool' = StartJobResult(pool, j)
  /\ UNCHANGED << rng, walk, search >>

(***************************************************************************)
(* One pass of `for candidate in candidates(..)` in a job: next(), and     *)
(* with a candidate txc.send(candidate), which fails and panics when the   *)
(* receiver is gone; with None the closure returns.                        *)
(***************************************************************************)
WorkerSendResult(p, j) ==
  LET job == p.jobs[j]
      r   == CandidatesNext(job.cand[1], PoolTop)
  IN  IF r.ret = None
      THEN [p EXCEPT !.jobs[j] = [job EXCEPT !.at = "returned", !.cand = Some(r.cand)]]
      ELSE IF p.pc \in {"passed", "failed"}
      THEN [p EXCEPT !.jobs[j] = [job EXCEPT !.at = "panicked", !.cand = Some(r.cand),
                                             !.walked = Append(job.walked, TrialOf(r.cand.state))]]
      ELSE [p EXCEPT !.jobs[j] = [job EXCEPT !.cand = Some(r.cand), !.sent = job.sent + 1,
                                             !.walked = Append(job.walked, TrialOf(r.cand.state))],
                     !.chan = Append(p.chan, r.ret[1])]

CanWorkerSend(p, j) == j \in Running(p) /\ Len(p.chan) < MaxChan

WorkerSend(j) ==
  /\ CanWorkerSend(pool, j)
  /\ pool' = WorkerSendResult(pool, j)
  /\ UNCHANGED << rng, walk, search >>

(***************************************************************************)
(* One pass of `for (key, msg) in rx.iter().take(total)`: the driver holds *)
(* tx, so rx.iter() waits for a candidate as long as the channel is empty. *)
(***************************************************************************)
DriverRecvResult(p) ==
  [p EXCEPT !.chan = Tail(p.chan), !.received = p.received + 1,
            !.map = insert(p.map, p.chan[1][1], p.chan[1][2])]

CanDriverRecv(p) == p.pc = "recv" /\ p.received < Total /\ p.chan # << >>

DriverRecv ==
  /\ CanDriverRecv(pool)
  /\ pool' = DriverRecvResult(pool)
  /\ UNCHANGED << rng, walk, search >>

(***************************************************************************)
(* take(total) ends the loop after total candidates; then                  *)
(* assert!(validate(&map)) and count(&map).  The number count is compared  *)
(* with, 32784, belongs to the 256^3 candidates and is not modelled.       *)
(***************************************************************************)
DriverAssertResult(p) ==
  [p EXCEPT !.pc = IF validate(p.map) THEN "passed" ELSE "failed",
            !.valid = Some(validate(p.map)), !.counted = Some(count(p.map))]

CanDriverAssert(p) == p.pc = "recv" /\ p.received = Total

DriverAssert ==
  /\ CanDriverAssert(pool)
  /\ pool' = DriverAssertResult(pool)
  /\ UNCHANGED << rng, walk, search >>

(***************************************************************************)
(* A running job panics: its thread unwinds, txc is dropped with the       *)
(* closure, and the pool replaces the thread.                              *)
(***************************************************************************)
WorkerPanicResult(p, j) == [p EXCEPT !.jobs[j] = [p.jobs[j] EXCEPT !.at = "panicked"]]

CanWorkerPanic(p, j) == j \in Running(p)

WorkerPanic(j) ==
  /\ CanWorkerPanic(pool, j)
  /\ pool' = WorkerPanicResult(pool, j)
  /\ UNCHANGED << rng, walk, search >>

PoolStep ==
  \/ Execute
  \/ \E j \in 1 .. PoolTop + 1 : StartJob(j)
  \/ \E j \in 1 .. PoolTop + 1 : WorkerSend(j)
  \/ DriverRecv
  \/ DriverAssert

PoolFaultStep ==
  \/ PoolStep
  \/ \E j \in 1 .. PoolTop + 1 : WorkerPanic(j)

(* A step of test_k3 can be taken: the guards of PoolStep. *)
CanStep(p) ==
  \/ CanExecute(p)
  \/ \E j \in 1 .. PoolTop + 1 : CanStartJob(p, j) \/ CanWorkerSend(p, j)
  \/ CanDriverRecv(p)
  \/ CanDriverAssert(p)

SpecPool == PoolInit /\ [][PoolStep]_vars

SpecPoolFault == PoolInit /\ [][PoolFaultStep]_vars

(***************************************************************************)
(* The candidates of all jobs as one thread gives them, job after job, and *)
(* the map they make: what a run without threads collects.                 *)
(***************************************************************************)
RECURSIVE CandidatesFrom(_)
CandidatesFrom(byte) ==
  IF byte > PoolTop THEN << >>
  ELSE RunNext(candidates(SetShardByte(PrefilledRows[13], byte), 13),
               ShardSize + 1, PoolTop).out \o CandidatesFrom(byte + 1)

SequentialMap == InsertAll(EmptyMap, CandidatesFrom(0))

(* The elements of a sequence with the number of times each occurs. *)
BagOfSeq(s) ==
  [x \in {s[i] : i \in 1 .. Len(s)} |-> Cardinality({i \in 1 .. Len(s) : s[i] = x})]

(* Two maps with the same keys and, for each key, the same bag of messages. *)
SameBuckets(m1, m2) ==
  /\ DOMAIN m1 = DOMAIN m2
  /\ \A key \in DOMAIN m1 : BagOfSeq(m1[key]) = BagOfSeq(m2[key])

(* The trials all jobs have walked so far, job after job. *)
RECURSIVE WalkedFrom(_, _)
WalkedFrom(jobs, j) ==
  IF j > Len(jobs) THEN << >> ELSE jobs[j].walked \o WalkedFrom(jobs, j + 1)

(* Every job has been given to the pool and has returned. *)
AllReturned(p) ==
  /\ Len(p.jobs) = PoolTop + 1
  /\ \A j \in 1 .. Len(p.jobs) : p.jobs[j].at = "returned"

(* Every trial of three bytes has been walked, and none twice. *)
EveryTrialOnce(p) ==
  BagOfSeq(WalkedFrom(p.jobs, 1)) =
    [t \in (0 .. PoolTop) \X (0 .. PoolTop) \X (0 .. PoolTop) |-> 1]

(***************************************************************************)
(* C7 as stated.  Job i has its own copy of the prefilled row, fixes the   *)
(* first free byte (T2 column 17, T3 column 33) to i and enumerates the    *)
(* other two; when all jobs have returned every trial has been walked      *)
(* exactly once.                                                           *)
(***************************************************************************)
C7_FirstByteFixed ==
  /\ \A j \in 1 .. Len(pool.jobs) :
        \A i \in 1 .. Len(pool.jobs[j].walked) :
           /\ pool.jobs[j].walked[i][1] = pool.jobs[j].byte
           /\ pool.jobs[j].cand[1].state[33] = pool.jobs[j].byte
  /\ AllReturned(pool) => EveryTrialOnce(pool)

(***************************************************************************)
(* C7.  Job i has its own copy of the prefilled row and fixes the third    *)
(* free byte (state[18] and state[34], T2 column 19 and T3 column 35) to   *)
(* i; its n-th candidate has the n-th pair of bytes in the first two free  *)
(* bytes (T2 columns 17, 18 and T3 columns 33, 34); when all jobs have     *)
(* returned every trial has been walked exactly once.                      *)
(***************************************************************************)
C7_ThirdByteFixed ==
  /\ \A j \in 1 .. Len(pool.jobs) :
        LET job == pool.jobs[j]
        IN  /\ job.byte = j - 1
            /\ job.at = "queued" => job.state = PrefilledRows[13]
            /\ job.at # "queued" =>
                 /\ job.cand[1].state[19] = job.byte
                 /\ job.cand[1].state[35] = job.byte
                 /\ SubSeq(job.cand[1].state, 33, 35) = SubSeq(job.cand[1].state, 17, 19)
            /\ \A i \in 1 .. Len(job.walked) :
                 job.walked[i] = << (i - 1) \div (PoolTop + 1), (i - 1) % (PoolTop + 1),
                                    job.byte >>
  /\ AllReturned(pool) => EveryTrialOnce(pool)

(* All jobs have returned, the last of them after walking its last trial. *)
C7_Witness ==
  /\ AllReturned(pool)
  /\ Len(WalkedFrom(pool.jobs, 1)) = Total
  /\ pool.jobs[PoolTop + 1].walked[ShardSize] = << PoolTop, PoolTop, PoolTop >>

(***************************************************************************)
(* C8.  Whatever the order of the sends, the driver is never stuck before  *)
(* its asserts; when it has made them it has received Total candidates,    *)
(* the channel is empty, and the map has for each key the bag of messages  *)
(* of the run without threads, so count() is that of this run.             *)
(***************************************************************************)
C8_ScheduleIndependent ==
  /\ pool.pc \in {"passed", "failed"} =>
        /\ pool.received = Total
        /\ pool.chan = << >>
        /\ SameBuckets(pool.map, SequentialMap)
        /\ pool.counted = Some(count(SequentialMap))
  /\ pool.pc \notin {"passed", "failed"} => CanStep(pool)

(* The driver has made its asserts on the candidates of all jobs. *)
C8_Witness ==
  /\ pool.pc = "passed"
  /\ pool.received = Total
  /\ Cardinality(DOMAIN pool.map) + pool.counted[1] = Total

(***************************************************************************)
(* C9.  Once a job has panicked before sending all its candidates, the     *)
(* driver reports no count, and it is not left waiting: either it has      *)
(* failed or a step of the program is still to come (a job that can panic  *)
(* can also send, so the steps are those of PoolStep).                     *)
(***************************************************************************)
C9_PanicAbortsSearch ==
  (\E j \in 1 .. Len(pool.jobs) :
      pool.jobs[j].at = "panicked" /\ pool.jobs[j].sent < ShardSize) =>
    /\ pool.counted = None
    /\ pool.pc = "failed" \/ CanStep(pool)
====
